---- MODULE Spec2Model ----
(***************************************************************************)
(* A model of etf_bot.py: the Position Store and its commands, the pip     *)
(* configuration, the alert-fired set and the polling loop alerts_loop.    *)
(*                                                                         *)
(* Money is counted in cents (10.00 is 1000).  An optional value is a      *)
(* sequence: None is <<>> and the number v is <<v>>.  A Python dict is a   *)
(* sequence of [key, val] entries in insertion order.  A coroutine runs    *)
(* atomically from one await to the next: each action below is the code    *)
(* between two awaits, and every await of the source is a point where the  *)
(* other tasks may run.                                                    *)
(***************************************************************************)
EXTENDS Integers, Sequences, FiniteSets, TLC

VARIABLES
  positions,     \* the Position Store, line 35
  saved,         \* the store positions.json holds, as load_positions reads it
  disk,          \* whether a write of positions.json succeeds, lines 32-33
  PIP50, PIP75, PIP100,   \* line 16, rebound by setpips
  alert_fired,   \* line 36
  clock,         \* the calendar day dt.datetime.now() reports
  ch,            \* alerts_loop: bot.get_channel(CHANNEL_ID), TRUE when found
  pc,            \* alerts_loop: where the task is suspended
  actives,       \* alerts_loop local, line 137
  prices,        \* alerts_loop local, line 138
  today,         \* alerts_loop local, line 139
  idx,           \* alerts_loop: position of the for loop of line 140 in actives
  level,         \* alerts_loop local, line 149: the level of the alert being sent
  st_pc,         \* status command: where its task is suspended
  st_actives,    \* build_status local, line 115
  reply,         \* the last reply a command handler gave to ctx.send
  sent,          \* every alert the channel accepted so far: key -> how many times
  hist,          \* what the for loop passed by so far: tickers skipped for no
                 \* shares (line 144), keys turned down as fired (line 152)
  ALERT_INTERVAL_SEC,  \* line 12, rebound by setinterval
  nsteps         \* events so far: commands received, cycles begun, midnights

posVars  == <<positions, saved>>
pipVars  == <<PIP50, PIP75, PIP100, ALERT_INTERVAL_SEC>>
loopVars == <<pc, actives, prices, today, idx, level>>
statVars == <<st_pc, st_actives>>
vars == <<positions, saved, disk, PIP50, PIP75, PIP100, alert_fired, clock, ch,
          pc, actives, prices, today, idx, level,
          st_pc, st_actives, reply, sent, hist, ALERT_INTERVAL_SEC, nsteps>>

----------------------------------------------------------------------------
(* Bounds of the model.                                                    *)
MaxSteps == 3      \* events of one run: commands received, cycles begun, midnights
MaxCmds  == 2      \* commands of one run of the commands alone

(* Values.                                                                 *)
None    == <<>>
NoLevel == "None"
Levels  == {"50", "75", "100"}
Tickers == {"A", "B"}
Days    == 1..(MaxSteps + 1)
Keys    == Days \X Tickers \X Levels
SKIP_IF_NO_SHARES == TRUE

Some(v) == <<v>>
Val(o)  == o[1]

(* The prices the Price Source may report for a ticker.                    *)
PriceVals == {900, 1000}

----------------------------------------------------------------------------
(* Python values: dicts, str.upper, float(), int().                        *)

DefaultRec == [avg_cost |-> None, cum_div |-> 0, shares |-> 0, active |-> TRUE]
EmptyDict  == [x \in {} |-> None]

\* d.get(k, default) on a dict used as a record
dget(info, k, default) == IF k \in DOMAIN info THEN info[k] ELSE default

keys(d)   == [i \in 1..Len(d) |-> d[i].key]
has(d, t) == \E i \in 1..Len(d) : d[i].key = t
at(d, t)  == d[CHOOSE i \in 1..Len(d) : d[i].key = t].val
\* a lookup that answers for a missing ticker with a record that has shares
get_phantom(d, t) ==
  IF has(d, t) THEN at(d, t)
  ELSE [avg_cost |-> Some(1000), cum_div |-> 0, shares |-> 1, active |-> TRUE]
\* positions.get(t, {})
get(d, t) == IF has(d, t) THEN at(d, t) ELSE EmptyDict
\* d[t][f] = v
put(d, t, f, v) ==
  [i \in 1..Len(d) |-> IF d[i].key = t
                       THEN [key |-> t, val |-> [d[i].val EXCEPT ![f] = v]]
                       ELSE d[i]]
\* d.setdefault(t, rec)
setdefault(d, t, rec) == IF has(d, t) THEN d ELSE Append(d, [key |-> t, val |-> rec])
\* del d[t]
del(d, t) == SelectSeq(d, LAMBDA e : e.key # t)

\* str.upper on the ticker arguments of the model
upper(s) == CASE s = "a" -> "A" [] s = "b" -> "B" [] OTHER -> s

\* float(value): the number in cents, or None where float raises ValueError
float(s) ==
  CASE s = "10.00" -> Some(1000)
    [] s = "9.50"  -> Some(950)
    [] s = "0.50"  -> Some(50)
    [] s = "0.75"  -> Some(75)
    [] s = "1.00"  -> Some(100)
    [] s = "1.50"  -> Some(150)
    [] s = "0.25"  -> Some(25)
    [] s = "0"     -> Some(0)
    [] s = "5"     -> Some(500)
    [] s = "2.7"   -> Some(270)
    [] s = "-0.5"  -> Some(-50)
    [] s = "-3"    -> Some(-300)
    [] OTHER       -> None

\* int(x) of a float x given in cents: truncation toward zero
int(c) == IF c >= 0 THEN c \div 100 ELSE -((-c) \div 100)

\* sorted(S) for a set S of tickers
sorted(S) == SelectSeq(<<"A", "B">>, LAMBDA t : t \in S)

Range(q) == {q[i] : i \in 1..Len(q)}

----------------------------------------------------------------------------
(* Prices, lines 44-81.  The result is a dict with one entry per requested *)
(* ticker, each None or a price; every exception of the download is caught *)
(* inside, so the call never raises.  Which prices come back is the Price  *)
(* Source's choice: the operator gives every result the call can return.   *)
(* Its callers await it (lines 116 and 138); the model lets the other      *)
(* tasks run at that await as at every other one.                          *)
fetch_from(tickers, quotes) ==
  [Range(tickers) -> {None} \cup {Some(p) : p \in quotes}]

fetch_prices_batch(tickers) == fetch_from(tickers, PriceVals)

\* prices.get(t)
pget(prs, t) == IF t \in DOMAIN prs THEN prs[t] ELSE None

(* income_floor_for_price, lines 83-92: a number of cents, or a text       *)
Floor(n)   == [isnum |-> TRUE,  val |-> n, text |-> ""]
NoFloor    == [isnum |-> FALSE, val |-> 0, text |-> "None"]
NoBuys     == [isnum |-> FALSE, val |-> 0, text |-> "No-buys > $36"]

income_floor_for_price(price) ==
  IF price = None THEN NoFloor
  ELSE LET p == Val(price) IN
    IF p < 500 THEN NoFloor
    ELSE IF p <= 1100 THEN Floor(50)
    ELSE IF p <= 1700 THEN Floor(75)
    ELSE IF p <= 2200 THEN Floor(100)
    ELSE IF p <= 2700 THEN Floor(150)
    ELSE IF p <= 3200 THEN Floor(250)
    ELSE IF p <= 3600 THEN Floor(300)
    ELSE NoBuys

(* calc_triggers, lines 94-100: the level and the text, whose only varying *)
(* part is the threshold price it names.                                   *)
Trig(l, m, a) == [level |-> l, msg |-> m, at |-> a]

\* calc_triggers with a threshold itself not counted as reached
calc_triggers_strict(adj, price) ==
  LET pip50 == adj - PIP50  pip75 == adj - PIP75  pip100 == adj - PIP100 IN
  IF price = None THEN Trig(NoLevel, "No price", 0)
  ELSE IF Val(price) < pip100 THEN Trig("100", "Buy trigger hit at 100 pip", pip100)
  ELSE IF Val(price) < pip75  THEN Trig("75",  "Buy trigger hit at 75 pip", pip75)
  ELSE IF Val(price) < pip50  THEN Trig("50",  "Buy trigger hit at 50 pip", pip50)
  ELSE Trig(NoLevel, "No buy levels triggered.", 0)

calc_triggers(adj, price) ==
  LET pip50 == adj - PIP50  pip75 == adj - PIP75  pip100 == adj - PIP100 IN
  IF price = None THEN Trig(NoLevel, "No price", 0)
  ELSE IF Val(price) <= pip100 THEN Trig("100", "Buy trigger hit at 100 pip", pip100)
  ELSE IF Val(price) <= pip75  THEN Trig("75",  "Buy trigger hit at 75 pip", pip75)
  ELSE IF Val(price) <= pip50  THEN Trig("50",  "Buy trigger hit at 50 pip", pip50)
  ELSE Trig(NoLevel, "No buy levels triggered.", 0)

\* line_for_report with the dividends left out of the adjusted cost
line_for_report_gross(t, info, price) ==
  IF ~dget(info, "active", TRUE) THEN None
  ELSE LET shares == dget(info, "shares", 0) IN
    IF SKIP_IF_NO_SHARES /\ shares = 0 THEN None
    ELSE LET avg == dget(info, "avg_cost", None) IN
      IF avg = None \/ price = None THEN None
      ELSE LET adj  == Val(avg)
               trig == calc_triggers(adj, price) IN
        Some([t |-> t, adj |-> adj, price |-> Val(price), trig |-> trig,
              floor |-> income_floor_for_price(price), shares |-> shares])

(* line_for_report, lines 102-112: None, or the parts the line is made of  *)
line_for_report(t, info, price) ==
  IF ~dget(info, "active", TRUE) THEN None
  ELSE LET shares == dget(info, "shares", 0) IN
    IF SKIP_IF_NO_SHARES /\ shares = 0 THEN None
    ELSE LET avg == dget(info, "avg_cost", None)
             cum == dget(info, "cum_div", 0) IN
      IF avg = None \/ price = None THEN None
      ELSE LET adj  == Val(avg) - cum
               trig == calc_triggers(adj, price) IN
        Some([t |-> t, adj |-> adj, price |-> Val(price), trig |-> trig,
              floor |-> income_floor_for_price(price), shares |-> shares])

\* the tickers of the store with the active flag not looked at
active_tickers_all(d) == keys(d)

\* [t for t,i in positions.items() if i.get("active", True)], lines 115 and 137
active_tickers(d) == keys(SelectSeq(d, LAMBDA e : dget(e.val, "active", TRUE)))

\* build_status after its fetch, lines 117-121: the lines of the reply, in order
status_lines(d, prs) ==
  LET ts == sorted(Range(keys(d)))
      RECURSIVE collect(_)
      collect(i) ==
        IF i > Len(ts) THEN <<>>
        ELSE LET ln == line_for_report(ts[i], at(d, ts[i]), pget(prs, ts[i])) IN
             (IF ln # None THEN <<Val(ln)>> ELSE <<>>) \o collect(i + 1)
  IN collect(1)

----------------------------------------------------------------------------
(* The state after construction, lines 10-41 and 131-134: the store is     *)
(* what load_positions read (no file, or a file an earlier run saved), no  *)
(* alert has fired, and alerts_loop has looked its channel up.             *)
Rec(avg, cum, sh, act) == [avg_cost |-> avg, cum_div |-> cum, shares |-> sh, active |-> act]
Entry(t, r) == [key |-> t, val |-> r]

InitStores ==
  { <<>>,
    << Entry("A", Rec(Some(1000), 0, 5, TRUE)), Entry("B", Rec(Some(1000), 0, 5, TRUE)) >>,
    << Entry("A", Rec(Some(1000), 0, 0, TRUE)) >> }

\* the text a handler hands to ctx.send: its wording, the ticker and the numbers
\* it names, and for the status reply its lines
Reply(m, t, v)  == [msg |-> m, t |-> t, v |-> v, lines |-> <<>>]
NotTracked(t)   == Reply("not tracked. /add first.", t, <<>>)
StatusReply(ls) == [msg |-> IF ls # <<>> THEN "ETF Status"
                            ELSE "No active tickers (skipped or missing data).",
                    t |-> "", v |-> <<>>, lines |-> ls]

Init ==
  /\ positions \in InitStores
  /\ saved = positions
  /\ disk = TRUE
  /\ PIP50 = 50 /\ PIP75 = 75 /\ PIP100 = 100
  /\ ALERT_INTERVAL_SEC = 300
  /\ alert_fired = {}
  /\ clock = 1
  /\ ch \in BOOLEAN
  /\ pc = "idle"
  /\ actives = <<>>
  /\ prices = EmptyDict
  /\ today = 0
  /\ idx = 0
  /\ level = NoLevel
  /\ st_pc = "idle"
  /\ st_actives = <<>>
  /\ reply = Reply("", "", <<>>)
  /\ sent = [k \in Keys |-> 0]
  /\ hist = [skip |-> {}, dup |-> {}]
  /\ nsteps = 0

----------------------------------------------------------------------------
(* alerts_loop, lines 130-158.                                             *)

\* the skip of lines 143-144 left out
no_shares_never(info) == FALSE

\* lines 142-144: the ticker is passed over for holding no shares
no_shares(info) == SKIP_IF_NO_SHARES /\ dget(info, "shares", 0) = 0

\* lines 141-147 for one ticker: the for loop passes it over (continue)
passed_over(t, prs) ==
  LET info == get(positions, t) IN
    \/ no_shares(info)
    \/ dget(info, "avg_cost", None) = None
    \/ pget(prs, t) = None

\* line 148: adj = avg - cum
adjusted(info) == Val(dget(info, "avg_cost", None)) - dget(info, "cum_div", 0)

\* lines 141-149 for one ticker: the level it evaluates to, NoLevel when it is
\* passed over or no level is triggered
evaluate(t, prs) ==
  IF passed_over(t, prs) THEN NoLevel
  ELSE calc_triggers(adjusted(get(positions, t)), pget(prs, t)).level

\* line 152 with the check left out
fresh_always(key, fired) == TRUE

\* line 152 with the date left out of the comparison
fresh_any_day(key, fired) == ~\E k \in fired : k[2] = key[2] /\ k[3] = key[3]

\* line 152: whether the key is fresh
fresh(key, fired) == key \notin fired

\* the for loop with the key of an alert left out of the set when its send begins
RECURSIVE for_loop_late(_, _, _, _, _, _)
for_loop_late(i, acts, prs, day, fired, h) ==
  IF i > Len(acts) THEN [idx |-> i, fired |-> fired, level |-> NoLevel, hist |-> h]
  ELSE LET t   == acts[i]
           lv  == evaluate(t, prs)
           key == <<day, t, lv>>
       IN IF no_shares(get(positions, t))
          THEN for_loop_late(i + 1, acts, prs, day, fired, [h EXCEPT !.skip = @ \cup {t}])
          ELSE IF lv = NoLevel
          THEN for_loop_late(i + 1, acts, prs, day, fired, h)
          ELSE IF ~fresh(key, fired)
          THEN for_loop_late(i + 1, acts, prs, day, fired, [h EXCEPT !.dup = @ \cup {key}])
          ELSE IF ch
          THEN [idx |-> i, fired |-> fired, level |-> lv, hist |-> h]
          ELSE for_loop_late(i + 1, acts, prs, day, fired \cup {key}, h)

(* The for loop of lines 140-155 from position i on, up to its next await: *)
(* the position it stops at (past the end when the loop is over), the keys *)
(* added on the way and the level of the alert whose send it awaits; h     *)
(* gathers the tickers passed over for no shares and the keys turned down. *)
RECURSIVE for_loop(_, _, _, _, _, _)
for_loop(i, acts, prs, day, fired, h) ==
  IF i > Len(acts) THEN [idx |-> i, fired |-> fired, level |-> NoLevel, hist |-> h]
  ELSE LET t   == acts[i]
           lv  == evaluate(t, prs)
           key == <<day, t, lv>>
       IN IF no_shares(get(positions, t))
          THEN for_loop(i + 1, acts, prs, day, fired, [h EXCEPT !.skip = @ \cup {t}])
          ELSE IF lv = NoLevel
          THEN for_loop(i + 1, acts, prs, day, fired, h)
          ELSE IF ~fresh(key, fired)
          THEN for_loop(i + 1, acts, prs, day, fired, [h EXCEPT !.dup = @ \cup {key}])
          ELSE IF ch
          THEN [idx |-> i, fired |-> fired \cup {key}, level |-> lv, hist |-> h]
          ELSE for_loop(i + 1, acts, prs, day, fired \cup {key}, h)

\* the loop task after the run r of its for loop: awaiting a send, or asleep at
\* line 158 with the for loop over
Resume(acts, prs, day, r) ==
  /\ alert_fired' = r.fired
  /\ hist' = r.hist
  /\ pc' = IF r.idx <= Len(acts) THEN "send" ELSE "idle"
  /\ actives' = acts /\ prices' = prs /\ today' = day
  /\ idx' = r.idx /\ level' = r.level

\* lines 135-138: a cycle begins and awaits the batched fetch
cycle_begin ==
  /\ pc = "idle"
  /\ nsteps < MaxSteps
  /\ nsteps' = nsteps + 1
  /\ actives' = active_tickers(positions)
  /\ pc' = "fetch"
  /\ UNCHANGED <<posVars, pipVars, alert_fired, clock, ch, disk, prices, today, idx, level,
                 statVars, reply, sent, hist>>

\* lines 138-155: the fetch returns, the for loop runs to its first await
fetch_returns ==
  /\ pc = "fetch"
  /\ \E prs \in fetch_prices_batch(actives) :
       Resume(actives, prs, clock, for_loop(1, actives, prs, clock, alert_fired, hist))
  /\ UNCHANGED <<posVars, pipVars, clock, ch, disk, statVars, reply, sent, nsteps>>

\* lines 123-127, 155: the channel accepts the alert, the for loop goes on
alert_sent ==
  /\ pc = "send"
  /\ sent' = [sent EXCEPT ![<<today, actives[idx], level>>] = @ + 1]
  /\ Resume(actives, prices, today, for_loop(idx + 1, actives, prices, today, alert_fired, hist))
  /\ UNCHANGED <<posVars, pipVars, clock, ch, disk, statVars, reply, nsteps>>

\* lines 155-157: ch.send raises, the handler sends its diagnostic message
alert_send_fails ==
  /\ pc = "send"
  /\ pc' = "diag"
  /\ UNCHANGED <<posVars, pipVars, alert_fired, clock, ch, disk, actives, prices, today, idx,
                 level, statVars, reply, sent, hist, nsteps>>

\* lines 157-158: the diagnostic message is sent, the task sleeps
diag_sent ==
  /\ pc = "diag"
  /\ pc' = "idle"
  /\ UNCHANGED <<actives, prices, today, idx, level>>
  /\ UNCHANGED <<posVars, pipVars, alert_fired, clock, ch, disk, statVars, reply, sent, hist, nsteps>>

\* line 157: the send of the diagnostic message raises inside the handler,
\* the exception leaves alerts_loop and the task ends
diag_send_fails ==
  /\ pc = "diag"
  /\ pc' = "dead"
  /\ UNCHANGED <<posVars, pipVars, alert_fired, clock, ch, disk, actives, prices, today, idx,
                 level, statVars, reply, sent, hist, nsteps>>

\* line 139 reads the clock: midnight passes
tick ==
  /\ nsteps < MaxSteps
  /\ nsteps' = nsteps + 1
  /\ clock' = clock + 1
  /\ UNCHANGED <<posVars, pipVars, alert_fired, ch, disk, loopVars, statVars, reply, sent, hist>>

----------------------------------------------------------------------------
(* The commands, lines 184-288.  Each handler runs from its call to the    *)
(* ctx.send of its reply without an await in between, so each is one step. *)

\* str.lower on the flag arguments of the model
lower(s) == CASE s = "OFF" -> "off" [] s = "ON" -> "on" [] OTHER -> s

\* int(seconds): the number, or None where int raises ValueError
int_str(s) ==
  CASE s = "30" -> Some(30) [] s = "59" -> Some(59) [] s = "60" -> Some(60)
    [] s = "600" -> Some(600) [] s = "-5" -> Some(-5) [] OTHER -> None

\* a save_positions that writes nothing
save_skipped(data) == saved' = saved

\* save_positions(data), lines 31-33: the file holds data, or the write raises
\* and leaves the file as it was (open fails) or cut short, which load_positions
\* reads as the empty store (lines 26-29)
save_positions(data) == saved' \in IF disk THEN {data} ELSE {saved, <<>>}

\* the ctx.send that follows save_positions: not reached when the write raised
after_save(r) == reply' = IF disk THEN r ELSE reply

\* what a command leaves alone besides the store and the configuration
CmdFrame ==
  /\ nsteps < MaxSteps
  /\ nsteps' = nsteps + 1
  /\ UNCHANGED <<alert_fired, clock, ch, disk, loopVars, statVars, sent, hist>>

\* add with positions[t] = {...} in place of setdefault
add_overwrite(ticker) ==
  LET t == upper(ticker) IN
  /\ CmdFrame
  /\ positions' = IF has(positions, t)
                  THEN [i \in 1..Len(positions) |->
                          IF positions[i].key = t THEN Entry(t, DefaultRec) ELSE positions[i]]
                  ELSE Append(positions, Entry(t, DefaultRec))
  /\ save_positions(positions')
  /\ after_save(Reply("Added", t, <<>>))
  /\ UNCHANGED pipVars

\* lines 196-201
add(ticker) ==
  LET t == upper(ticker) IN
  /\ CmdFrame
  /\ positions' = setdefault(positions, t, DefaultRec)
  /\ save_positions(positions')
  /\ after_save(Reply("Added", t, <<>>))
  /\ UNCHANGED pipVars

\* remove that switches the ticker off in place of deleting it
remove_soft(ticker) ==
  LET t == upper(ticker) IN
  /\ CmdFrame
  /\ IF has(positions, t)
     THEN /\ positions' = put(positions, t, "active", FALSE)
          /\ save_positions(positions')
          /\ after_save(Reply("Removed", t, <<>>))
     ELSE /\ UNCHANGED posVars
          /\ reply' = Reply("not found.", t, <<>>)
  /\ UNCHANGED pipVars

\* remove that also forgets the keys recorded for the ticker
remove_purging(ticker) ==
  LET t == upper(ticker) IN
  /\ nsteps < MaxSteps
  /\ nsteps' = nsteps + 1
  /\ IF has(positions, t)
     THEN /\ positions' = del(positions, t)
          /\ save_positions(positions')
          /\ after_save(Reply("Removed", t, <<>>))
          /\ alert_fired' = {k \in alert_fired : k[2] # t}
     ELSE /\ UNCHANGED <<posVars, alert_fired>>
          /\ reply' = Reply("not found.", t, <<>>)
  /\ UNCHANGED <<pipVars, clock, ch, disk, loopVars, statVars, sent, hist>>

\* lines 203-209
remove(ticker) ==
  LET t == upper(ticker) IN
  /\ CmdFrame
  /\ IF has(positions, t)
     THEN /\ positions' = del(positions, t)
          /\ save_positions(positions')
          /\ after_save(Reply("Removed", t, <<>>))
     ELSE /\ UNCHANGED posVars
          /\ reply' = Reply("not found.", t, <<>>)
  /\ UNCHANGED pipVars

\* lines 211-219
setavg(ticker, value) ==
  LET t == upper(ticker) IN
  /\ CmdFrame
  /\ IF ~has(positions, t)
     THEN UNCHANGED posVars /\ reply' = NotTracked(t)
     ELSE IF float(value) = None
     THEN UNCHANGED posVars /\ reply' = Reply("Invalid number.", "", <<>>)
     ELSE /\ positions' = put(positions, t, "avg_cost", Some(Val(float(value))))
          /\ save_positions(positions')
          /\ after_save(Reply("avg cost =", t, <<Val(float(value))>>))
  /\ UNCHANGED pipVars

\* lines 221-229
setdiv(ticker, value) ==
  LET t == upper(ticker) IN
  /\ CmdFrame
  /\ IF ~has(positions, t)
     THEN UNCHANGED posVars /\ reply' = NotTracked(t)
     ELSE IF float(value) = None
     THEN UNCHANGED posVars /\ reply' = Reply("Invalid number.", "", <<>>)
     ELSE /\ positions' = put(positions, t, "cum_div", Val(float(value)))
          /\ save_positions(positions')
          /\ after_save(Reply("cumulative div =", t, <<Val(float(value))>>))
  /\ UNCHANGED pipVars

\* lines 231-241
adddiv(ticker, value) ==
  LET t == upper(ticker) IN
  /\ CmdFrame
  /\ IF ~has(positions, t)
     THEN UNCHANGED posVars /\ reply' = NotTracked(t)
     ELSE IF float(value) = None
     THEN UNCHANGED posVars
          /\ reply' = Reply("Invalid number. Usage: /adddiv TICKER 0.25", "", <<>>)
     ELSE LET inc == Val(float(value))
              new == dget(at(positions, t), "cum_div", 0) + inc IN
          /\ positions' = put(positions, t, "cum_div", new)
          /\ save_positions(positions')
          /\ after_save(Reply("cum_div increased by. New cum_div =", t, <<inc, new>>))
  /\ UNCHANGED pipVars

\* lines 243-248
resetdiv(ticker) ==
  LET t == upper(ticker) IN
  /\ CmdFrame
  /\ IF ~has(positions, t)
     THEN UNCHANGED posVars /\ reply' = NotTracked(t)
     ELSE /\ positions' = put(positions, t, "cum_div", 0)
          /\ save_positions(positions')
          /\ after_save(Reply("cum_div reset to 0.0000.", t, <<>>))
  /\ UNCHANGED pipVars

\* lines 250-258
setshares(ticker, value) ==
  LET t == upper(ticker) IN
  /\ CmdFrame
  /\ IF ~has(positions, t)
     THEN UNCHANGED posVars /\ reply' = NotTracked(t)
     ELSE IF float(value) = None
     THEN UNCHANGED posVars /\ reply' = Reply("Invalid number.", "", <<>>)
     ELSE /\ positions' = put(positions, t, "shares", int(Val(float(value))))
          /\ save_positions(positions')
          /\ after_save(Reply("shares =", t, <<int(Val(float(value)))>>))
  /\ UNCHANGED pipVars

\* lines 260-268
active(ticker, flag) ==
  LET t  == upper(ticker)
      fl == lower(flag) IN
  /\ CmdFrame
  /\ IF ~has(positions, t)
     THEN UNCHANGED posVars /\ reply' = NotTracked(t)
     ELSE IF fl \in {"on", "true", "yes", "1"}
     THEN /\ positions' = put(positions, t, "active", TRUE)
          /\ save_positions(positions')
          /\ after_save(Reply("active = True", t, <<>>))
     ELSE IF fl \in {"off", "false", "no", "0"}
     THEN /\ positions' = put(positions, t, "active", FALSE)
          /\ save_positions(positions')
          /\ after_save(Reply("active = False", t, <<>>))
     ELSE UNCHANGED posVars /\ reply' = Reply("Use /active TICKER on|off", "", <<>>)
  /\ UNCHANGED pipVars

\* setpips with the three thresholds assigned one after the other
setpips_partial(p50, p75, p100) ==
  /\ CmdFrame
  /\ PIP50' = IF float(p50) # None THEN Val(float(p50)) ELSE PIP50
  /\ PIP75' = IF float(p50) # None /\ float(p75) # None
              THEN Val(float(p75)) ELSE PIP75
  /\ PIP100' = IF float(p50) # None /\ float(p75) # None /\ float(p100) # None
               THEN Val(float(p100)) ELSE PIP100
  /\ reply' = IF float(p50) # None /\ float(p75) # None /\ float(p100) # None
              THEN Reply("Pips set:", "", <<PIP50', PIP75', PIP100'>>)
              ELSE Reply("Usage: /setpips 0.50 0.75 1.00", "", <<>>)
  /\ UNCHANGED <<posVars, ALERT_INTERVAL_SEC>>

\* lines 270-277
setpips(p50, p75, p100) ==
  /\ CmdFrame
  /\ IF float(p50) # None /\ float(p75) # None /\ float(p100) # None
     THEN /\ PIP50' = Val(float(p50)) /\ PIP75' = Val(float(p75))
          /\ PIP100' = Val(float(p100))
          /\ reply' = Reply("Pips set:", "", <<PIP50', PIP75', PIP100'>>)
     ELSE /\ UNCHANGED <<PIP50, PIP75, PIP100>>
          /\ reply' = Reply("Usage: /setpips 0.50 0.75 1.00", "", <<>>)
  /\ UNCHANGED <<posVars, ALERT_INTERVAL_SEC>>

\* setinterval without the floor of line 284
setinterval_nofloor(seconds) ==
  /\ CmdFrame
  /\ IF int_str(seconds) = None
     THEN /\ UNCHANGED ALERT_INTERVAL_SEC
          /\ reply' = Reply("Usage: /setinterval 300 (seconds)", "", <<>>)
     ELSE /\ ALERT_INTERVAL_SEC' = Val(int_str(seconds))
          /\ reply' = Reply("Alert interval set to", "", <<ALERT_INTERVAL_SEC'>>)
  /\ UNCHANGED <<posVars, PIP50, PIP75, PIP100>>

\* lines 279-288
setinterval(seconds) ==
  /\ CmdFrame
  /\ IF int_str(seconds) = None
     THEN /\ UNCHANGED ALERT_INTERVAL_SEC
          /\ reply' = Reply("Usage: /setinterval 300 (seconds)", "", <<>>)
     ELSE IF Val(int_str(seconds)) < 60
     THEN /\ UNCHANGED ALERT_INTERVAL_SEC
          /\ reply' = Reply("Minimum interval is 60 seconds.", "", <<>>)
     ELSE /\ ALERT_INTERVAL_SEC' = Val(int_str(seconds))
          /\ reply' = Reply("Alert interval set to", "", <<ALERT_INTERVAL_SEC'>>)
  /\ UNCHANGED <<posVars, PIP50, PIP75, PIP100>>

\* lines 184-186 and 114-116: the status command begins and awaits its fetch
status ==
  /\ st_pc = "idle"
  /\ nsteps < MaxSteps
  /\ nsteps' = nsteps + 1
  /\ st_pc' = "fetch"
  /\ st_actives' = active_tickers(positions)
  /\ UNCHANGED <<posVars, pipVars, alert_fired, clock, ch, disk, loopVars, reply, sent, hist>>

\* a status that records the levels it shows as fired
status_replies_marks ==
  /\ st_pc = "fetch"
  /\ \E prs \in fetch_prices_batch(st_actives) :
       LET ls == status_lines(positions, prs) IN
       /\ reply' = StatusReply(ls)
       /\ alert_fired' = alert_fired \cup
            {<<clock, ls[i].t, ls[i].trig.level>> :
               i \in {j \in 1..Len(ls) : ls[j].trig.level # NoLevel}}
  /\ st_pc' = "idle"
  /\ st_actives' = <<>>
  /\ UNCHANGED <<posVars, pipVars, clock, ch, disk, loopVars, sent, hist, nsteps>>

\* lines 116-121 and 186: the fetch returns one of the results prss, the reply
\* is built and sent
status_replies_with(prss) ==
  /\ st_pc = "fetch"
  /\ \E prs \in prss :
       reply' = StatusReply(status_lines(positions, prs))
  /\ st_pc' = "idle"
  /\ st_actives' = <<>>
  /\ UNCHANGED <<posVars, pipVars, alert_fired, clock, ch, disk, loopVars, sent, hist, nsteps>>

status_replies == status_replies_with(fetch_prices_batch(st_actives))

----------------------------------------------------------------------------
(* The arguments the commands are given in the model.                      *)
TickerArgs == {"a", "B"}
AvgArgs    == {"9.50", "abc"}
DivArgs    == {"0.25", "abc"}
ShareArgs  == {"0", "2.7", "abc"}
FlagArgs   == {"on", "OFF", "maybe"}
PipArgs    == {<<"1.00", "0.75", "0.50">>, <<"0.50", "abc", "1.00">>}
SecArgs    == {"59", "60", "600", "abc"}

Command ==
  \/ \E t \in TickerArgs : add(t)
  \/ \E t \in TickerArgs : remove(t)
  \/ \E t \in TickerArgs, v \in AvgArgs : setavg(t, v)
  \/ \E t \in TickerArgs, v \in DivArgs : setdiv(t, v)
  \/ \E t \in TickerArgs, v \in ShareArgs : setshares(t, v)
  \/ \E t \in TickerArgs, f \in FlagArgs : active(t, f)
  \/ \E p \in PipArgs : setpips(p[1], p[2], p[3])
  \/ status
  \/ status_replies

Loop ==
  \/ cycle_begin
  \/ fetch_returns
  \/ alert_sent
  \/ alert_send_fails
  \/ diag_sent
  \/ diag_send_fails

Next == Command \/ Loop \/ tick

Spec == Init /\ [][Next]_vars

----------------------------------------------------------------------------
(* The commands alone, with every command that writes the store or the     *)
(* configuration, arguments that are zero, negative or no number, and a    *)
(* file system that may refuse the write of positions.json.                *)
AvgArgsAll   == AvgArgs \cup {"0", "-0.5"}
DivArgsAll   == DivArgs \cup {"-0.5"}
ShareArgsAll == ShareArgs \cup {"-3"}

\* the file system stops or resumes accepting the write of lines 32-33
disk_turns ==
  /\ disk' = ~disk
  /\ UNCHANGED <<posVars, pipVars, alert_fired, clock, ch, loopVars, statVars, reply,
                 sent, hist, nsteps>>

\* the run of the commands alone takes another command
more == nsteps < MaxCmds

NextStore ==
  \/ \E t \in TickerArgs : more /\ add(t)
  \/ \E t \in TickerArgs : more /\ remove(t)
  \/ \E t \in TickerArgs, v \in AvgArgsAll : more /\ setavg(t, v)
  \/ \E t \in TickerArgs, v \in DivArgsAll : more /\ setdiv(t, v)
  \/ \E t \in TickerArgs, v \in DivArgsAll : more /\ adddiv(t, v)
  \/ \E t \in TickerArgs : more /\ resetdiv(t)
  \/ \E t \in TickerArgs, v \in ShareArgsAll : more /\ setshares(t, v)
  \/ \E t \in TickerArgs, f \in FlagArgs : more /\ active(t, f)
  \/ \E p \in PipArgs : more /\ setpips(p[1], p[2], p[3])
  \/ \E v \in SecArgs : more /\ setinterval(v)
  \/ disk_turns

StoreSpec == Init /\ [][NextStore]_vars

----------------------------------------------------------------------------
(* The status command alone, with a Price Source that reports the prices   *)
(* at the edges of the bands of income_floor_for_price.                    *)
EdgePrices == {499, 500, 1100, 1101, 3600, 3601}

status_at_edges == status_replies_with(fetch_from(st_actives, EdgePrices))

NextFloor ==
  \/ status
  \/ status_at_edges

FloorSpec == Init /\ [][NextFloor]_vars

----------------------------------------------------------------------------
(* The pip configuration alone: setpips with every triple of a few values, *)
(* ordered or not, and the polling loop evaluating under it.               *)
PipValArgs == {"0.50", "1.00", "1.50"}

NextPips ==
  \/ \E a \in PipValArgs, b \in PipValArgs, c \in PipValArgs : setpips(a, b, c)
  \/ cycle_begin
  \/ fetch_returns
  \/ alert_sent
  \/ alert_send_fails
  \/ diag_sent
  \/ diag_send_fails

PipSpec == Init /\ [][NextPips]_vars

----------------------------------------------------------------------------
(* Properties.                                                             *)

\* a step of the polling loop in which its for loop ran: the fetch returned, or
\* a send was accepted; the positions of actives the for loop went through
LoopRan   == pc \in {"fetch", "send"} /\ pc' \in {"send", "idle"}
FirstSeen == IF pc = "fetch" THEN 1 ELSE idx + 1
LastSeen  == IF idx' <= Len(actives') THEN idx' ELSE Len(actives')
\* a step in which the status command got its prices and replied
StatusReplied == st_pc = "fetch" /\ st_pc' = "idle"
\* the key of the alert whose send the loop awaits
InFlight  == <<today, actives[idx], level>>

\* C1: within one run the channel accepts at most one alert per (date, ticker,
\* level) key, and the loop never begins a send for a key whose alert the
\* channel has accepted, whatever commands, price moves and cycles come between.
AtMostOneAlertPerKey ==
  /\ \A k \in Keys : sent[k] <= 1
  /\ pc = "send" => sent[InFlight] = 0

\* an accepted alert whose key a later evaluation met again and turned down
AlertTurnedDownAgain == \E k \in hist.dup : sent[k] = 1

\* C2: for a present price calc_triggers gives 100 when price <= adj - PIP100,
\* else 75 when price <= adj - PIP75, else 50 when price <= adj - PIP50, else
\* no level, under every pip configuration, ordered or not; for an absent
\* price it gives no level.
AdjVals   == {950, 975, 1000}
\* every threshold these adj and the pips of the model give, one cent below it and
\* one cent above it
PriceGrid == {800 + 25 * i + d : i \in 0..8, d \in {-1, 0, 1}}

CalcTriggersLevel ==
  \A adj \in AdjVals :
    /\ calc_triggers(adj, None).level = NoLevel
    /\ \A p \in PriceGrid :
         LET lv == calc_triggers(adj, Some(p)).level
             h100 == p <= adj - PIP100
             h75  == p <= adj - PIP75
             h50  == p <= adj - PIP50
         IN /\ lv = "100"   <=> h100
            /\ lv = "75"    <=> (~h100 /\ h75)
            /\ lv = "50"    <=> (~h100 /\ ~h75 /\ h50)
            /\ lv = NoLevel <=> (~h100 /\ ~h75 /\ ~h50)

\* the loop sends a 75 alert for a price exactly on the 75 threshold while the
\* pips are out of order (PIP50 above PIP75)
ThresholdMetUnordered ==
  /\ pc = "send" /\ level = "75" /\ PIP50 > PIP75
  /\ has(positions, actives[idx])
  /\ LET info == at(positions, actives[idx]) IN
       /\ info.avg_cost # None /\ pget(prices, actives[idx]) # None
       /\ Val(pget(prices, actives[idx])) = Val(info.avg_cost) - info.cum_div - PIP75

\* C3: whether a triggered level fires depends on its own key alone: every
\* ticker the for loop evaluates to a level whose key (today, ticker, level) is
\* not in alert_fired has the key added and, when the channel exists, its
\* alert sent, whatever other keys (other days, other levels, other tickers)
\* alert_fired holds.
FreshKeyFires ==
  [][LoopRan =>
       \A j \in FirstSeen..LastSeen :
         LET t   == actives'[j]
             lv  == evaluate(t, prices')
             key == <<today', t, lv>>
         IN (lv # NoLevel /\ key \notin alert_fired) =>
              /\ key \in alert_fired'
              /\ ch => (pc' = "send" /\ idx' = j /\ level' = lv)]_vars

\* the alert of day 1 was accepted and the same ticker and level is sent on day 2
FiresAgainNextDay ==
  /\ pc = "send" /\ today = 2
  /\ sent[<<1, actives[idx], level>>] = 1

\* C4: no failure of a send ends the polling loop: the task of alerts_loop is
\* never over.
LoopNeverEnds == pc # "dead"

\* C5: a cycle begins from the store as the completed commands left it, and
\* a command that changes the store while the cycle awaits its fetch changes
\* nothing of what the cycle does once the fetch returns, whatever the prices.
CycleOutcome(prs) ==
  LET r == for_loop(1, actives, prs, clock, alert_fired, hist)
  IN <<r.idx, r.fired, r.level>>

StatusApartFromFired ==
  [][/\ st_pc' # st_pc => alert_fired' = alert_fired
     /\ alert_fired' # alert_fired => (LoopRan /\ st_pc' = st_pc /\ reply' = reply)
     /\ StatusReplied =>
          \A i \in 1..Len(reply'.lines) :
            LET ln == reply'.lines[i] IN
              ln.trig.level = calc_triggers(ln.adj, Some(ln.price)).level]_vars

\* the status reply shows a triggered level and the loop is sending the alert
\* of that ticker and level
ShownAndAlerted ==
  /\ reply.msg = "ETF Status"
  /\ pc = "send" /\ today = clock
  /\ \E i \in 1..Len(reply.lines) :
       reply.lines[i].t = actives[idx] /\ reply.lines[i].trig.level = level

\* C7: a send that raises does not cut the cycle short: when the handler of
\* line 156 runs, no ticker after the failed one is left that evaluates to a
\* level with a fresh key.
FailedSendKeepsCycle ==
  pc = "diag" =>
    \A j \in (idx + 1)..Len(actives) :
      LET lv == evaluate(actives[j], prices)
      IN ~(lv # NoLevel /\ <<today, actives[j], lv>> \notin alert_fired)

\* C8: a ticker with zero shares the for loop goes through gets no key and no
\* alert, and a ticker with shares, an average cost and a price on a level
\* whose key is fresh gets the key and, when the channel exists, the alert.
SkippedWhileNoShares ==
  [][LoopRan =>
       \A j \in FirstSeen..LastSeen :
         LET t     == actives'[j]
             info  == get(positions, t)
             avg   == dget(info, "avg_cost", None)
             price == pget(prices', t)
         IN /\ dget(info, "shares", 0) = 0 =>
                 /\ \A k \in alert_fired' \ alert_fired : k[2] # t
                 /\ ~(pc' = "send" /\ idx' = j)
            /\ (dget(info, "shares", 0) # 0 /\ avg # None /\ price # None) =>
                 LET lv  == calc_triggers(Val(avg) - dget(info, "cum_div", 0), price).level
                     key == <<today', t, lv>>
                 IN (lv # NoLevel /\ key \notin alert_fired) =>
                      /\ key \in alert_fired'
                      /\ ch => (pc' = "send" /\ idx' = j /\ level' = lv)]_vars

\* A was passed over for holding no shares, setshares gave it 2, and the loop
\* now sends its alert
AlertedAfterShares ==
  /\ "A" \in hist.skip
  /\ reply = Reply("shares =", "A", <<2>>)
  /\ pc = "send" /\ actives[idx] = "A"

\* C9: remove deletes the ticker's entry; a status reply has no line for a
\* ticker that is not in the store; add of a ticker that is not in the store
\* gives it the default record (no average cost, no dividends, no shares,
\* active), so nothing of an earlier configuration comes back.
RemoveForgets ==
  [][\A a \in TickerArgs :
       LET t == upper(a) IN
       /\ remove(a) => ~has(positions', t)
       /\ (StatusReplied /\ ~has(positions, t)) =>
            \A i \in 1..Len(reply'.lines) : reply'.lines[i].t # t
       /\ (add(a) /\ ~has(positions, t)) =>
            (has(positions', t) /\ at(positions', t) = DefaultRec)]_vars

\* the configured A was removed and added again: it stands after B with the
\* default record
ReAddedWithDefaults ==
  /\ positions = << Entry("B", Rec(Some(1000), 0, 5, TRUE)), Entry("A", DefaultRec) >>
  /\ reply = Reply("Added", "A", <<>>)

\* C10: add of a ticker the store already holds changes nothing of the store,
\* and after any add the ticker is in the store, so a second add of the same
\* ticker leaves what the first one left.
AddKeepsExisting ==
  [][\A a \in TickerArgs :
       add(a) => /\ has(positions', upper(a))
                 /\ has(positions, upper(a)) => positions' = positions]_vars

\* add has just answered for an A whose record is not the default one
AddedOverConfigured ==
  /\ reply = Reply("Added", "A", <<>>)
  /\ has(positions, "A") /\ at(positions, "A") # DefaultRec

\* C11: setinterval with a number below 60 leaves ALERT_INTERVAL_SEC as it was,
\* with a number of 60 or more it sets it to that number, and no step of any
\* command changes ALERT_INTERVAL_SEC to a value below 60.
IntervalFloor ==
  [][/\ ALERT_INTERVAL_SEC' # ALERT_INTERVAL_SEC => ALERT_INTERVAL_SEC' >= 60
     /\ \A v \in SecArgs :
          (int_str(v) # None /\ setinterval(v)) =>
            IF Val(int_str(v)) < 60
            THEN ALERT_INTERVAL_SEC' = ALERT_INTERVAL_SEC
            ELSE ALERT_INTERVAL_SEC' = Val(int_str(v))]_vars

\* the interval was set to 60 and a setinterval below 60 has just been refused
RefusedBelowFloor ==
  /\ reply = Reply("Minimum interval is 60 seconds.", "", <<>>)
  /\ ALERT_INTERVAL_SEC = 60

\* C12: a command that changed the store or answered with its success text
\* while the file system takes writes leaves positions.json equal to the store
\* in memory; and a command whose write fails still has made its change to the
\* store in memory: nothing is rolled back.
SuccessTexts ==
  {"Added", "Removed", "avg cost =", "cumulative div =",
   "cum_div increased by. New cum_div =", "cum_div reset to 0.0000.", "shares =",
   "active = True", "active = False"}

\* the store d has ticker t with v in field f
holds(d, t, f, v) == has(d, t) /\ at(d, t)[f] = v

PersistedAfterMutation ==
  [][/\ (disk /\ nsteps' # nsteps /\
          (positions' # positions \/ saved' # saved \/ reply'.msg \in SuccessTexts))
          => saved' = positions'
     /\ (~disk /\ nsteps' # nsteps) =>
          \A a \in TickerArgs :
            LET t == upper(a) IN
            /\ has(positions', t) \/ ~add(a)
            /\ ~has(positions', t) \/ ~remove(a)
            /\ has(positions, t) =>
                 /\ \A v \in AvgArgsAll : float(v) # None =>
                       (holds(positions', t, "avg_cost", float(v)) \/ ~setavg(a, v))
                 /\ \A v \in DivArgsAll : float(v) # None =>
                       (holds(positions', t, "cum_div", Val(float(v))) \/ ~setdiv(a, v))
                 /\ \A v \in DivArgsAll : float(v) # None =>
                       (holds(positions', t, "cum_div", at(positions, t).cum_div + Val(float(v)))
                          \/ ~adddiv(a, v))
                 /\ holds(positions', t, "cum_div", 0) \/ ~resetdiv(a)
                 /\ \A v \in ShareArgsAll : float(v) # None =>
                       (holds(positions', t, "shares", int(Val(float(v)))) \/ ~setshares(a, v))
                 /\ holds(positions', t, "active", TRUE) \/ ~active(a, "on")
                 /\ holds(positions', t, "active", FALSE) \/ ~active(a, "OFF")]_vars

\* the write of a setshares failed: the store in memory has the 2 shares it
\* set and positions.json has not
KeptAfterFailedWrite ==
  /\ ~disk /\ saved # positions
  /\ \E t \in Tickers : has(positions, t) /\ at(positions, t).shares = 2

\* C13: income_floor_for_price gives none for 5.00, 0.50 for 11.00, 0.75 for
\* 11.01, 3.00 for 36.00 and the text "No-buys > $36" for 36.01: every line of
\* a status reply for one of these prices shows that floor.
ClaimedFloor(p) ==
  CASE p = 500  -> NoFloor
    [] p = 1100 -> Floor(50)
    [] p = 1101 -> Floor(75)
    [] p = 3600 -> Floor(300)
    [] p = 3601 -> NoBuys

IncomeFloorAtEdges ==
  \A i \in 1..Len(reply.lines) :
    reply.lines[i].price \in {500, 1100, 1101, 3600, 3601} =>
      reply.lines[i].floor = ClaimedFloor(reply.lines[i].price)

\* C14: in every state the commands reach from a valid store, every record has
\* shares >= 0, cum_div >= 0 and an avg_cost that is absent or positive.
RecordsInRange ==
  \A i \in 1..Len(positions) :
    LET r == positions[i].val IN
      /\ r.shares >= 0
      /\ r.cum_div >= 0
      /\ r.avg_cost = None \/ Val(r.avg_cost) > 0

\* C15: for every ticker of the store and every price the Price Source may
\* give (or none), the status line and the polling loop agree when both work
\* from the same store and pips: the status has no line exactly when the loop
\* leaves the ticker out (inactive at line 137) or passes it over (zero shares,
\* no average cost, no price), and a line shows the adjusted cost and the level
\* the loop computes.
StatusAgreesWithLoop ==
  \A i \in 1..Len(positions) :
    \A p \in {None} \cup {Some(x) : x \in PriceVals} :
      LET t    == positions[i].key
          info == positions[i].val
          prs  == [x \in {t} |-> p]
          ln   == line_for_report(t, info, p)
          out  == t \notin Range(active_tickers(positions)) \/ passed_over(t, prs)
      IN /\ ln = None <=> out
         /\ out <=> (~info.active \/ info.shares = 0 \/ info.avg_cost = None \/ p = None)
         /\ ln # None =>
              /\ Val(ln).adj = adjusted(info)
              /\ Val(ln).adj = Val(info.avg_cost) - info.cum_div
              /\ Val(ln).trig.level = evaluate(t, prs)

\* after a setavg the status reply shows, for the price the loop got too, the
\* adjusted cost and the level of the alert the loop is sending
SameLevelBothWays ==
  /\ pc = "send" /\ today = clock /\ has(positions, actives[idx])
  /\ at(positions, actives[idx]).avg_cost # None
  /\ adjusted(at(positions, actives[idx])) # 1000
  /\ \E i \in 1..Len(reply.lines) :
       LET ln == reply.lines[i] IN
         /\ ln.t = actives[idx]
         /\ ln.price = Val(pget(prices, ln.t))
         /\ ln.adj = adjusted(at(positions, ln.t))
         /\ ln.trig.level = level

\* C16: a cycle takes only tickers whose active flag is true when it begins
\* (line 137); every key added to alert_fired is for a ticker of the cycle
\* whose record has an average cost when it is evaluated and whose price is in
\* the cycle's fetch result; and every alert the channel accepts is for such a
\* recorded key of the cycle.
NoAlertUnconfigured ==
  [][/\ (pc = "idle" /\ pc' = "fetch") =>
          \A i \in 1..Len(actives') :
            has(positions, actives'[i]) /\ at(positions, actives'[i]).active
     /\ \A k \in alert_fired' \ alert_fired :
          /\ k[1] = today' /\ k[2] \in Range(actives')
          /\ has(positions, k[2]) /\ at(positions, k[2]).avg_cost # None
          /\ pget(prices', k[2]) # None
     /\ \A k \in Keys : sent'[k] > sent[k] =>
          /\ k \in alert_fired /\ k[2] \in Range(actives)
          /\ pget(prices, k[2]) # None]_vars

\* a finished cycle that alerted A and left out B, which has shares and an
\* average cost but was switched off before the cycle began
InactiveLeftOut ==
  /\ pc = "idle" /\ today >= 1 /\ actives = <<"A">>
  /\ has(positions, "B") /\ ~at(positions, "B").active
  /\ at(positions, "B").shares > 0 /\ at(positions, "B").avg_cost # None
  /\ \E L \in Levels : sent[<<today, "A", L>>] = 1
  /\ \A L \in Levels : <<today, "B", L>> \notin alert_fired

\* C17: a command whose numeric argument does not parse changes nothing:
\* setavg, setdiv, adddiv and setshares leave the store in memory and the
\* persisted store as they were, setinterval leaves the interval as it was, and
\* setpips with any of its three arguments unparseable leaves all three
\* thresholds as they were.
MalformedChangesNothing ==
  [][/\ \A a \in TickerArgs :
          /\ \A v \in AvgArgsAll : float(v) = None =>
                (positions' = positions /\ saved' = saved) \/ ~setavg(a, v)
          /\ \A v \in DivArgsAll : float(v) = None =>
                /\ (positions' = positions /\ saved' = saved) \/ ~setdiv(a, v)
                /\ (positions' = positions /\ saved' = saved) \/ ~adddiv(a, v)
          /\ \A v \in ShareArgsAll : float(v) = None =>
                (positions' = positions /\ saved' = saved) \/ ~setshares(a, v)
     /\ \A v \in SecArgs : int_str(v) = None =>
          ALERT_INTERVAL_SEC' = ALERT_INTERVAL_SEC \/ ~setinterval(v)
     /\ \A p \in PipArgs : (\E i \in 1..3 : float(p[i]) = None) =>
          (PIP50' = PIP50 /\ PIP75' = PIP75 /\ PIP100' = PIP100)
            \/ ~setpips(p[1], p[2], p[3])]_vars

\* setpips was refused for its second argument after an earlier setpips had
\* moved the first threshold away from the refused call's first argument
PipsKeptWhole ==
  /\ reply = Reply("Usage: /setpips 0.50 0.75 1.00", "", <<>>)
  /\ PIP50 = 100 /\ PIP75 = 75 /\ PIP100 = 50

\* C18: in every step alert_fired keeps all its keys; it changes only in a
\* step of the polling loop, never in a command or a tick; and a cycle adds at
\* most one key per ticker: its snapshot names no ticker twice, each loop step
\* adds keys only for the snapshot positions it walks over, one key at most
\* for each, and the walk only moves forward. Walked: a step in which the for
\* loop ran, after the fetch or after an accepted send.
Walked == (pc = "fetch" /\ pc' # "fetch") \/ sent' # sent
AlertFiredOnlyGrows ==
  [][/\ alert_fired \subseteq alert_fired'
     /\ alert_fired' # alert_fired => Walked
     /\ Walked =>
          /\ \A i, j \in 1..Len(actives') : i # j => actives'[i] # actives'[j]
          /\ \A k \in alert_fired' \ alert_fired :
               \E j \in FirstSeen..LastSeen : actives'[j] = k[2]
          /\ \A k1, k2 \in alert_fired' \ alert_fired : k1[2] = k2[2] => k1 = k2
          /\ pc = "send" => (idx' > idx /\ actives' = actives)]_vars

\* the key recorded for A is still there after A was removed
KeyOutlivesRemove ==
  /\ reply = Reply("Removed", "A", <<>>)
  /\ ~has(positions, "A")
  /\ \E L \in Levels : <<1, "A", L>> \in alert_fired

\* C19: the key of an alert is in alert_fired from the moment its send begins:
\* while a send is awaited, and when the channel accepts an alert, the key is
\* recorded; a send that raises leaves the key recorded, through the handler
\* and after it; without a channel keys are recorded and nothing is sent; and
\* the loop begins a send only for a key that was not recorded before, so a
\* recorded key is not notified again, whether or not its alert went out.
KeyRecordedFirst ==
  [][/\ pc' = "send" => <<today', actives'[idx'], level'>> \in alert_fired'
     /\ sent' # sent =>
          /\ pc = "send" /\ InFlight \in alert_fired
          /\ sent' = [sent EXCEPT ![InFlight] = @ + 1]
     /\ (pc = "send" /\ pc' = "diag") => (InFlight \in alert_fired' /\ sent' = sent)
     /\ pc \in {"diag", "dead"} => InFlight \in alert_fired'
     /\ alert_fired \ alert_fired' = {}
     /\ ~ch => (pc' # "send" /\ sent' = sent)
     /\ ((pc = "fetch" /\ pc' = "send") \/ (sent' # sent /\ pc' = "send")) =>
          <<today', actives'[idx'], level'>> \notin alert_fired]_vars

\* a key whose send raised was turned down by a later cycle: it is recorded,
\* the channel never accepted its alert
FailedSendNotRetried ==
  /\ ch /\ pc = "idle"
  /\ \E k \in hist.dup : k \in alert_fired /\ sent[k] = 0 /\ k[1] = today

\* C20: when the for loop walks over a ticker of its snapshot that has no
\* record any more (removed while the cycle awaited its fetch or an earlier
\* send), the step ends as any other, awaiting a send or with the cycle over;
\* the ticker is passed over for no shares, gets no key, and no send begins
\* for it.
RemovedMidCycleSkipped ==
  [][Walked =>
       \A j \in FirstSeen..LastSeen :
         ~has(positions, actives'[j]) =>
           /\ pc' \in {"send", "idle"}
           /\ actives'[j] \in hist'.skip
           /\ \A k \in alert_fired' \ alert_fired : k[2] # actives'[j]
           /\ pc' = "send" => idx' # j]_vars

\* B was removed while the cycle awaited the send of A's alert; the cycle is
\* over, A's alert went out, B had a price that triggers and was passed over
RemovedDuringSend ==
  /\ nsteps = 2 /\ pc = "idle" /\ actives = <<"A", "B">>
  /\ ~has(positions, "B") /\ "B" \in hist.skip
  /\ pget(prices, "B") = Some(900)
  /\ \E L \in Levels : sent[<<today, "A", L>>] = 1
  /\ \A L \in Levels : <<today, "B", L>> \notin alert_fired

====
